---------------------------- MODULE Spec2Model ----------------------------
(***************************************************************************)
(* Runtime core of fnmock: FunctionMock, FunctionStub and FunctionFake,    *)
(* together with the glue that the derive macros generate around them      *)
(* (the `<fn>_mock` function and the proxy functions of its module).       *)
(*                                                                         *)
(* One function `f(a, b, c)` is under test (`f(a)` when it is faked).  The *)
(* attribute placed on it (mock_function with an ignore list,              *)
(* stub_function or fake_function) is fixed at build time; it is chosen in *)
(* Init and never changes.  Spec is the test of that function on one       *)
(* thread; SpecContexts is a test that works on two threads, or with the   *)
(* generated modules of two functions; SpecReentrant is a test whose       *)
(* behaviours call the module of their own mock; SpecExpand is the         *)
(* expansion of fake_function and use_function_mock on one item.           *)
(***************************************************************************)
EXTENDS Integers, Sequences, FiniteSets, TLC

\* ------------------------------------------------------------------ bounds
\* Largest number of recorded calls explored.
MaxCalls == 2

\* ------------------------------------------------------------ input domains
\* Values the parameters of the function under test are called with.
ParamVals == [a |-> {1, 2}, b |-> {1}, c |-> {1, 2}]

\* The declared parameters of the function under test, in declaration order:
\* fn f(a: i32, b: i32, c: i32) -> i32
FnInputs == << [pat |-> "a", ty |-> "i32"],
              [pat |-> "b", ty |-> "i32"],
              [pat |-> "c", ty |-> "i32"] >>

\* The declared parameters of the function under test when it is faked:
\* fn f(a: i32) -> i32
FakeFnInputs == << [pat |-> "a", ty |-> "i32"] >>

\* The name of the function under test.
FnName == "f"

\* Ignore lists that can be written on #[mock_function(ignore = [...])].
IgnoreLists == { <<>>, <<"c">>, <<"c", "b">>, <<"a", "b", "c">> }

\* Behaviours a test can hand to setup: fn(Params) -> Return.
\*   "add"      adds the parameters up          (add_mock_implementation)
\*   "multiply" multiplies the parameters       (multiply_mock_implementation)
\*   "panics"   a behaviour whose body panics
Behaviours == {"add", "multiply", "panics"}

\* Canned values a test can hand to a stub.
ReturnVals == {41, 42}

\* ------------------------------------------------------------ Option<T>
None == <<>>
Some(x) == <<x>>
is_some(o) == o # None
unwrap(o) == o[1]

\* ------------------------------------------------------- outcomes of a call
\* A call either returns a value or panics with a message.  A message is the
\* sequence of its pieces: the literal text of the format string and the
\* rendered arguments, in the order in which they appear in the output.
Unit == "()"
Returned(v) == [status |-> "ok", value |-> v]
Panicked(site, msg) == [status |-> "panic", site |-> site, message |-> msg]

\* --------------------------------------------------------- parameter values
\* The value of a Params type is a record: its shape ("unit" for (), "bare"
\* for a single value, "tuple" for a tuple) and its elements in order.

RECURSIVE SumSeq(_)
SumSeq(s) == IF s = <<>> THEN 0 ELSE Head(s) + SumSeq(Tail(s))

RECURSIVE ProductSeq(_)
ProductSeq(s) == IF s = <<>> THEN 1 ELSE Head(s) * ProductSeq(Tail(s))

\* Running a behaviour on a parameter value.
Invoke(f, params) ==
    CASE f = "add"      -> Returned(SumSeq(params.elems))
      [] f = "multiply" -> Returned(ProductSeq(params.elems))
      [] f = "panics"   -> Panicked("behaviour", <<"behaviour panicked">>)


\* ============================================================ FunctionMock
\* struct FunctionMock { name, implementation, calls }
\* new that drops the name it is given.
new_without_name(function_name) ==
    [name |-> <<>>, implementation |-> None, calls |-> <<>>]

new(function_name) ==
    [name |-> function_name, implementation |-> None, calls |-> <<>>]

\* mock_implementation that keeps a behaviour that is already there.
mock_implementation_keeps_first(self, new_f) ==
    IF is_some(self.implementation) THEN self
    ELSE [self EXCEPT !.implementation = Some(new_f)]

\* mock_implementation that starts a new call log with the new behaviour.
mock_implementation_resets_calls(self, new_f) ==
    [self EXCEPT !.implementation = Some(new_f), !.calls = <<>>]

mock_implementation(self, new_f) ==
    [self EXCEPT !.implementation = Some(new_f)]

\* clear_mock that forgets the behaviour and keeps the calls.
clear_mock_keeps_calls(self) ==
    [self EXCEPT !.implementation = None]

\* clear_mock that empties the calls and keeps the behaviour.
clear_mock_keeps_implementation(self) ==
    [self EXCEPT !.calls = <<>>]

clear_mock(self) ==
    [self EXCEPT !.implementation = None, !.calls = <<>>]

\* call with the push placed before the configuration check.
call_logs_before_check(self, params) ==
    LET pushed == [self EXCEPT !.calls = Append(@, params)]
    IN  IF ~is_some(self.implementation)
        THEN [self |-> pushed,
              outcome |-> Panicked("call",
                                   <<self.name, " mock not initialized">>)]
        ELSE [self |-> pushed,
              outcome |-> Invoke(unwrap(self.implementation), params)]

\* call with the push placed after the behaviour has returned.
call_logs_after_behaviour(self, params) ==
    IF ~is_some(self.implementation)
    THEN [self |-> self,
          outcome |-> Panicked("call", <<self.name, " mock not initialized">>)]
    ELSE LET result == Invoke(unwrap(self.implementation), params)
         IN  [self |-> IF result.status = "ok"
                       THEN [self EXCEPT !.calls = Append(@, params)]
                       ELSE self,
              outcome |-> result]

\* call that puts the parameters at the front of the log.
call_logs_at_front(self, params) ==
    IF ~is_some(self.implementation)
    THEN [self |-> self,
          outcome |-> Panicked("call", <<self.name, " mock not initialized">>)]
    ELSE [self |-> [self EXCEPT !.calls = <<params>> \o @],
          outcome |-> Invoke(unwrap(self.implementation), params)]

\* call: the configuration check, then the push, then the behaviour.
\* The result holds the mock as the call leaves it and what the call did.
call(self, params) ==
    IF ~is_some(self.implementation)
    THEN [self |-> self,
          outcome |-> Panicked("call", <<self.name, " mock not initialized">>)]
    ELSE LET pushed == [self EXCEPT !.calls = Append(@, params)]
         IN  [self |-> pushed,
              outcome |-> Invoke(unwrap(self.implementation), params)]

\* assert_times that accepts any log that is not longer than expected.
assert_times_at_most(self, expected_num_of_calls) ==
    IF Len(self.calls) <= expected_num_of_calls
    THEN Returned(Unit)
    ELSE Panicked("assert_times",
                  <<"Expected ", self.name, " mock to be called ",
                    Len(self.calls), " times, received ",
                    expected_num_of_calls>>)

\* assert_eq!(calls.len(), expected, "Expected {} mock to be called {} times,
\* received {}", name, calls.len(), expected): the message holds the length
\* of the log first and the expected number second.
assert_times(self, expected_num_of_calls) ==
    IF Len(self.calls) = expected_num_of_calls
    THEN Returned(Unit)
    ELSE Panicked("assert_times",
                  <<"Expected ", self.name, " mock to be called ",
                    Len(self.calls), " times, received ",
                    expected_num_of_calls>>)

\* The loop of assert_with with the flag assigned on every entry, so that
\* the last entry alone decides.
RECURSIVE was_called_with_last_decides(_, _, _, _)
was_called_with_last_decides(calls, params, i, flag) ==
    IF i > Len(calls) THEN flag
    ELSE was_called_with_last_decides(calls, params, i + 1, calls[i] = params)

\* The loop of assert_with: `flag` is was_called_with before calls[i] is
\* visited; every entry is visited, a match sets the flag and nothing resets it.
RECURSIVE was_called_with(_, _, _, _)
was_called_with(calls, params, i, flag) ==
    IF i > Len(calls) THEN flag
    ELSE was_called_with(calls, params, i + 1,
                         IF calls[i] = params THEN TRUE ELSE flag)

\* The pieces of the elements e[i], e[i+1], ... of a tuple as {:?} writes
\* them: the elements separated by ", ".
RECURSIVE fmt_elems(_, _)
fmt_elems(e, i) ==
    IF i > Len(e) THEN <<>>
    ELSE IF i = Len(e) THEN <<e[i]>>
         ELSE <<e[i], ", ">> \o fmt_elems(e, i + 1)

\* {:?} of a Params value: "()" for the unit value, the value itself for a
\* single value, "(" the elements ")" for a tuple.
fmt_debug(params) ==
    IF params.shape = "unit" THEN <<"()">>
    ELSE IF params.shape = "bare" THEN <<params.elems[1]>>
         ELSE <<"(">> \o fmt_elems(params.elems, 1) \o <<")">>

\* assert_with whose message shows the entry logged last.
assert_with_shows_logged(self, params) ==
    IF was_called_with(self.calls, params, 1, FALSE)
    THEN Returned(Unit)
    ELSE Panicked("assert_with",
                  <<"Expected ", self.name, " mock to be called with ">>
                     \o fmt_debug(IF self.calls = <<>> THEN params
                                  ELSE self.calls[Len(self.calls)]))

assert_with(self, params) ==
    IF was_called_with(self.calls, params, 1, FALSE)
    THEN Returned(Unit)
    ELSE Panicked("assert_with",
                  <<"Expected ", self.name, " mock to be called with ">>
                     \o fmt_debug(params))

\* ============================================================ FunctionStub
\* struct FunctionStub { name, return_value }
stub_new(function_name) == [name |-> function_name, return_value |-> None]

\* setup that keeps a value that is already there.
stub_setup_keeps_first(self, new_r) ==
    IF is_some(self.return_value) THEN self
    ELSE [self EXCEPT !.return_value = Some(new_r)]

stub_setup(self, new_r) == [self EXCEPT !.return_value = Some(new_r)]

stub_clear(self) == [self EXCEPT !.return_value = None]

\* is_set that answers true whatever the stub holds.
stub_is_set_always(self) == TRUE

stub_is_set(self) == is_some(self.return_value)

\* get_return_value that yields a default where the stub has no value.
get_return_value_or_default(self) ==
    IF is_some(self.return_value)
    THEN Returned(unwrap(self.return_value))
    ELSE Returned(0)

get_return_value(self) ==
    IF is_some(self.return_value)
    THEN Returned(unwrap(self.return_value))
    ELSE Panicked("get_return_value", <<self.name, " stub not initialized">>)

\* ============================================================ FunctionFake
\* struct FunctionFake { name, implementation }
fake_new(function_name) == [name |-> function_name, implementation |-> None]

\* setup that keeps a function that is already there.
fake_setup_keeps_first(self, new_f) ==
    IF is_some(self.implementation) THEN self
    ELSE [self EXCEPT !.implementation = Some(new_f)]

fake_setup(self, new_f) == [self EXCEPT !.implementation = Some(new_f)]

fake_clear(self) == [self EXCEPT !.implementation = None]

fake_is_set(self) == is_some(self.implementation)

get_implementation(self) ==
    IF is_some(self.implementation)
    THEN Returned(unwrap(self.implementation))
    ELSE Panicked("get_implementation", <<self.name, " fake not initialized">>)

\* ===================================================== the derive macros
\* The names of the parameters, in declaration order.
get_param_names(fn_inputs) ==
    [i \in 1..Len(fn_inputs) |-> fn_inputs[i].pat]

\* The position (counted from 0) of the first parameter called ignore_name,
\* looking at positions i, i+1, ...; -1 when there is none.
RECURSIVE position_of(_, _, _)
position_of(param_names, ignore_name, i) ==
    IF i >= Len(param_names) THEN -1
    ELSE IF param_names[i + 1] = ignore_name THEN i
         ELSE position_of(param_names, ignore_name, i + 1)

\* get_ignore_indices: each ignored name becomes its index, in the order of
\* the ignore list; a name that is no parameter is a build error.
RECURSIVE get_ignore_indices_from(_, _, _)
get_ignore_indices_from(param_names, ignore_params, indices) ==
    IF ignore_params = <<>> THEN [ok |-> TRUE, indices |-> indices]
    ELSE LET i == position_of(param_names, Head(ignore_params), 0)
         IN  IF i = -1
             THEN [ok |-> FALSE, indices |-> <<>>]
             ELSE get_ignore_indices_from(param_names, Tail(ignore_params),
                                          Append(indices, i))

\* get_ignore_indices that pushes the position of the name in the ignore
\* list, not the position of the parameter in the signature.
get_ignore_indices_of_ignore_list(fn_inputs, ignore_params) ==
    IF \A k \in 1..Len(ignore_params) :
          position_of(get_param_names(fn_inputs), ignore_params[k], 0) # -1
    THEN [ok |-> TRUE,
          indices |-> [k \in 1..Len(ignore_params) |-> k - 1]]
    ELSE [ok |-> FALSE, indices |-> <<>>]

get_ignore_indices(fn_inputs, ignore_params) ==
    get_ignore_indices_from(get_param_names(fn_inputs), ignore_params, <<>>)

contains(indices, idx) == \E k \in 1..Len(indices) : indices[k] = idx

\* The parameters that are not ignored, in declaration order.
RECURSIVE filter_params_from(_, _, _)
filter_params_from(fn_inputs, ignore_indices, idx) ==
    IF idx >= Len(fn_inputs) THEN <<>>
    ELSE LET rest == filter_params_from(fn_inputs, ignore_indices, idx + 1)
         IN  IF contains(ignore_indices, idx) THEN rest
             ELSE <<fn_inputs[idx + 1]>> \o rest

filter_params(fn_inputs, ignore_indices) ==
    filter_params_from(fn_inputs, ignore_indices, 0)

\* create_tuple_from_param_names without the case of a single name: one
\* name is written as a tuple too.
create_tuple_from_param_names_always_tuple(fn_inputs, ignore_indices) ==
    LET param_names == get_param_names(filter_params(fn_inputs, ignore_indices))
    IN  IF param_names = <<>> THEN [shape |-> "unit", elems |-> <<>>]
        ELSE [shape |-> "tuple", elems |-> param_names]

\* The expression handed to call and to assert_with: `()` for no parameter,
\* the bare name for one, a tuple of the names for two or more.
create_tuple_from_param_names(fn_inputs, ignore_indices) ==
    LET param_names == get_param_names(filter_params(fn_inputs, ignore_indices))
    IN  IF param_names = <<>> THEN [shape |-> "unit", elems |-> <<>>]
        ELSE IF Len(param_names) = 1
             THEN [shape |-> "bare", elems |-> param_names]
             ELSE [shape |-> "tuple", elems |-> param_names]

\* The parameter type: a single type is not wrapped, anything else (none, or
\* two and more) is written as a tuple type, and `()` is the unit type.
create_param_type(fn_inputs, ignore_indices) ==
    LET kept == filter_params(fn_inputs, ignore_indices)
        param_types == [i \in 1..Len(kept) |-> kept[i].ty]
    IN  IF Len(param_types) = 1
        THEN [shape |-> "bare", elems |-> param_types]
        ELSE IF param_types = <<>>
             THEN [shape |-> "unit", elems |-> <<>>]
             ELSE [shape |-> "tuple", elems |-> param_types]

\* format!("{}_mock", fn_name), and the names of the stub and fake modules.
mock_fn_name(fn_name) == <<fn_name, "_mock">>
stub_mod_name(fn_name) == <<fn_name, "_stub">>
fake_fn_name(fn_name) == <<fn_name, "_fake">>

\* The arguments of a call bound to the parameters they are passed for.
Bind(fn_inputs, args) ==
    [n \in {fn_inputs[i].pat : i \in 1..Len(fn_inputs)} |->
        args[CHOOSE i \in 1..Len(fn_inputs) : fn_inputs[i].pat = n]]

\* The value of a parameter expression where the parameters have the values
\* of env.
Eval(expr, env) ==
    [shape |-> expr.shape,
     elems |-> [i \in 1..Len(expr.elems) |-> env[expr.elems[i]]]]

\* What process_mock_function derives from the signature and the ignore list.
process_mock_function(fn_name, fn_inputs, ignore_params) ==
    LET ignore_indices == get_ignore_indices(fn_inputs, ignore_params).indices
    IN  [mock_fn_name       |-> mock_fn_name(fn_name),
         ignore_indices     |-> ignore_indices,
         params_type        |-> create_param_type(fn_inputs, ignore_indices),
         params_to_tuple    |-> create_tuple_from_param_names(fn_inputs,
                                                              ignore_indices),
         fn_inputs          |-> fn_inputs,
         filtered_fn_inputs |-> filter_params(fn_inputs, ignore_indices)]

\* The generated function  fn f_mock(a, b, c) { f_mock::call(params_to_tuple) }
\* run on a mock: what f_mock::call, that is FunctionMock::call, does with the
\* value of params_to_tuple.
\* f_mock handing all its parameters to call, the ignored ones included.
create_mock_function_all_params(gen, mock, args) ==
    call(mock, Eval(create_tuple_from_param_names(gen.fn_inputs, <<>>),
                    Bind(gen.fn_inputs, args)))

create_mock_function(gen, mock, args) ==
    call(mock, Eval(gen.params_to_tuple, Bind(gen.fn_inputs, args)))

\* The generated proxy  fn assert_with(filtered_fn_inputs)
\*                      { mock.borrow().assert_with(params_to_tuple) }
proxy_assert_with(gen, mock, args) ==
    assert_with(mock, Eval(gen.params_to_tuple,
                           Bind(gen.filtered_fn_inputs, args)))

\* The body of the function under test, #(#original_fn_stmts)*: it returns
\* the negated sum of its parameters, which no behaviour and no canned value
\* of a test yields.
original_fn_stmts(args) == Returned(0 - SumSeq(args))

\* The generated function f without the is_set guard: it always asks the
\* stub for its value.
create_stub_function_unguarded(stub, args) ==
    [self |-> stub, outcome |-> get_return_value(stub)]

\* The generated function  fn f(a, b, c) { if f_stub::is_set() { return
\* f_stub::get_return_value(); } original_fn_stmts }  in test mode.  The
\* result holds the stub as the run leaves it and what the run did.
create_stub_function(stub, args) ==
    IF stub_is_set(stub)
    THEN [self |-> stub, outcome |-> get_return_value(stub)]
    ELSE [self |-> stub, outcome |-> original_fn_stmts(args)]

\* The generated function f_fake taking the behaviour out of the fake when
\* it runs it.
create_fake_function_takes(fn_inputs, fake, args) ==
    LET implementation == get_implementation(fake)
    IN  IF implementation.status = "panic"
        THEN [self |-> fake, outcome |-> implementation]
        ELSE [self |-> fake_clear(fake),
              outcome |-> Invoke(implementation.value,
                                 [shape |-> create_param_type(fn_inputs,
                                                              <<>>).shape,
                                  elems |-> args])]

\* The generated function  fn f_fake(a) { f_fake::get_implementation()(a) }:
\* the behaviour is fetched and run on the parameters of the call.  The
\* result holds the fake as the run leaves it and what the run did.
create_fake_function(fn_inputs, fake, args) ==
    LET implementation == get_implementation(fake)
        param_names == get_param_names(fn_inputs)
        env == Bind(fn_inputs, args)
    IN  IF implementation.status = "panic"
        THEN [self |-> fake, outcome |-> implementation]
        ELSE [self |-> fake,
              outcome |-> Invoke(implementation.value,
                                 [shape |-> create_param_type(fn_inputs,
                                                              <<>>).shape,
                                  elems |-> [i \in 1..Len(param_names) |->
                                                env[param_names[i]]]])]

\* The generated proxy assert_times emptying the log it has counted.
proxy_assert_times_drains(mock, expected_num_of_calls) ==
    [self    |-> [mock EXCEPT !.calls = <<>>],
     outcome |-> assert_times(mock, expected_num_of_calls)]

\* The generated proxy  fn assert_times(expected_num_of_calls)
\*                      { mock.borrow().assert_times(expected_num_of_calls) }
\* The result holds the mock as the proxy leaves it and how the proxy ended.
proxy_assert_times(mock, expected_num_of_calls) ==
    [self    |-> mock,
     outcome |-> assert_times(mock, expected_num_of_calls)]

\* ================================================================== state
VARIABLES
    attribute,     \* the attribute on f: the macro and its ignore list
    MOCK,          \* thread_local static MOCK: FunctionMock
    STUB,          \* thread_local static STUB: FunctionStub
    FAKE,          \* thread_local static FAKE: FunctionFake
    last,          \* the operation the test ran last, and how it ended
    behaviour,     \* what the test handed to the most recent setup since the
                   \*   construction or the last clear (None: no setup)
    invocations,   \* the calls of f_mock the test made after a setup, since
                   \*   the construction or the last clear: the arguments,
                   \*   and whether the call returned
    cleared_from,  \* what the test had set up, and whether it had made calls,
                   \*   when it last called clear (None: never cleared)
    fresh,         \* engines made by new on which only the operations since
                   \*   the last clear were performed, and the outcome of the
                   \*   last of these operations
    retrievals,    \* how often the test read the stub or the fake since its
                   \*   last setup or clear: get_return_value,
                   \*   get_implementation and runs of the generated function
    contexts,      \* the two places a test works at: each is a function with
                   \*   its attribute, and the thread the test code runs on
    statics,       \* the thread-local statics of the generated modules: the
                   \*   engine stored under each key
    own,           \* per context, the engine that new makes after the
                   \*   operations of that context alone, and whether the
                   \*   context has run its function
    seen,          \* the operation run last in a context: how it ended, and
                   \*   how it ends on the context's own engine
    CELL,          \* the RefCell of the static MOCK of one thread: the mock
                   \*   and the borrows of it that are alive
    trace,         \* the operation run last on CELL: the mock before it, how
                   \*   it ended, and what the behaviour did when it entered
                   \*   the module again
    item,          \* the item an attribute macro is placed on: a function
                   \*   under fake_function, a use statement under
                   \*   use_function_mock
    expanded       \* what the macro made of the item (None: not expanded)

testvars == <<attribute, MOCK, STUB, FAKE, last, behaviour, invocations,
              cleared_from, fresh, retrievals>>

ctxvars == <<contexts, statics, own, seen>>

cellvars == <<CELL, trace>>

macrovars == <<item, expanded>>

restvars == <<ctxvars, cellvars, macrovars>>

vars == <<testvars, restvars>>

Attributes ==
    {[macro |-> "mock_function", ignore |-> ig] : ig \in IgnoreLists}
        \cup {[macro |-> "stub_function", ignore |-> <<>>],
              [macro |-> "fake_function", ignore |-> <<>>]}

\* The generated code of the function under test.
Gen == process_mock_function(FnName, FnInputs, attribute.ignore)

\* All argument lists for a parameter list.
ArgsOf(fn_inputs) ==
    {args \in [1..Len(fn_inputs) -> {1, 2}] :
        \A i \in 1..Len(fn_inputs) : args[i] \in ParamVals[fn_inputs[i].pat]}

Op(op, args, outcome) == [op |-> op, args |-> args, outcome |-> outcome]

FreshEngines ==
    [mock    |-> new(mock_fn_name(FnName)),
     stub    |-> stub_new(stub_mod_name(FnName)),
     fake    |-> fake_new(fake_fn_name(FnName)),
     outcome |-> Returned(Unit)]

\* The test of one function on one thread, before its first operation.
InitTest ==
    /\ MOCK = new(mock_fn_name(FnName))
    /\ STUB = stub_new(stub_mod_name(FnName))
    /\ FAKE = fake_new(fake_fn_name(FnName))
    /\ last = Op("new", <<>>, Returned(Unit))
    /\ behaviour = None
    /\ invocations = <<>>
    /\ cleared_from = None
    /\ fresh = FreshEngines
    /\ retrievals = 0

\* No second function and no second thread.
NoContexts ==
    /\ contexts = <<>>
    /\ statics = <<>>
    /\ own = <<>>
    /\ seen = Op("new", <<>>, Returned(Unit))

\* No behaviour that enters the module again.
NoCell ==
    /\ CELL = <<>>
    /\ trace = <<>>

\* No macro expansion under study.
NoMacro ==
    /\ item = <<>>
    /\ expanded = <<>>

Init ==
    /\ attribute \in Attributes
    /\ get_ignore_indices(FnInputs, attribute.ignore).ok
    /\ InitTest
    /\ NoContexts
    /\ NoCell
    /\ NoMacro

\* What clear remembers of the test so far.
Cleared == Some([setup |-> behaviour, had_calls |-> invocations # <<>>])

\* ------------------------------------------------------------ mock actions
\* f_mock::setup(new_f)
MockSetup(new_f) ==
    /\ attribute.macro = "mock_function"
    /\ MOCK' = mock_implementation(MOCK, new_f)
    /\ last' = Op("setup", <<new_f>>, Returned(Unit))
    /\ behaviour' = Some(new_f)
    /\ fresh' = [fresh EXCEPT !.mock = mock_implementation(@, new_f),
                              !.outcome = Returned(Unit)]
    /\ UNCHANGED <<attribute, STUB, FAKE, invocations, cleared_from>>
    /\ UNCHANGED <<retrievals, restvars>>

\* f_mock::clear()
MockClear ==
    /\ attribute.macro = "mock_function"
    /\ MOCK' = clear_mock(MOCK)
    /\ last' = Op("clear", <<>>, Returned(Unit))
    /\ behaviour' = None
    /\ invocations' = <<>>
    /\ cleared_from' = Cleared
    /\ fresh' = FreshEngines
    /\ UNCHANGED <<attribute, STUB, FAKE>>
    /\ UNCHANGED <<retrievals, restvars>>

\* f_mock(a, b, c)
MockCall(args) ==
    /\ attribute.macro = "mock_function"
    /\ Len(invocations) < MaxCalls
    /\ LET r == create_mock_function(Gen, MOCK, args)
           s == create_mock_function(Gen, fresh.mock, args)
       IN  /\ MOCK' = r.self
           /\ last' = Op("call", args, r.outcome)
           /\ invocations' =
                IF is_some(behaviour)
                THEN Append(invocations,
                            [args |-> args,
                             returned |-> r.outcome.status = "ok"])
                ELSE invocations
           /\ fresh' = [fresh EXCEPT !.mock = s.self, !.outcome = s.outcome]
    /\ UNCHANGED <<attribute, STUB, FAKE, behaviour, cleared_from>>
    /\ UNCHANGED <<retrievals, restvars>>

\* f_mock::assert_times(expected_num_of_calls)
MockAssertTimes(expected_num_of_calls) ==
    /\ attribute.macro = "mock_function"
    /\ LET r == proxy_assert_times(MOCK, expected_num_of_calls)
           s == proxy_assert_times(fresh.mock, expected_num_of_calls)
       IN  /\ MOCK' = r.self
           /\ last' = Op("assert_times", <<expected_num_of_calls>>, r.outcome)
           /\ fresh' = [fresh EXCEPT !.mock = s.self, !.outcome = s.outcome]
    /\ UNCHANGED <<attribute, STUB, FAKE, behaviour, invocations,
                   cleared_from>>
    /\ UNCHANGED <<retrievals, restvars>>

\* f_mock::assert_with(the parameters that are not ignored)
MockAssertWith(args) ==
    /\ attribute.macro = "mock_function"
    /\ last' = Op("assert_with", args, proxy_assert_with(Gen, MOCK, args))
    /\ fresh' = [fresh EXCEPT
                   !.outcome = proxy_assert_with(Gen, fresh.mock, args)]
    /\ UNCHANGED <<attribute, MOCK, STUB, FAKE, behaviour, invocations,
                   cleared_from>>
    /\ UNCHANGED <<retrievals, restvars>>

\* ------------------------------------------------------------ stub actions
\* f_stub::setup(return_value)
StubSetup(new_r) ==
    /\ attribute.macro = "stub_function"
    /\ STUB' = stub_setup(STUB, new_r)
    /\ last' = Op("setup", <<new_r>>, Returned(Unit))
    /\ behaviour' = Some(new_r)
    /\ fresh' = [fresh EXCEPT !.stub = stub_setup(@, new_r),
                              !.outcome = Returned(Unit)]
    /\ UNCHANGED <<attribute, MOCK, FAKE, invocations, cleared_from>>
    /\ retrievals' = 0
    /\ UNCHANGED restvars

\* f_stub::clear()
StubClear ==
    /\ attribute.macro = "stub_function"
    /\ STUB' = stub_clear(STUB)
    /\ last' = Op("clear", <<>>, Returned(Unit))
    /\ behaviour' = None
    /\ cleared_from' = Cleared
    /\ fresh' = FreshEngines
    /\ UNCHANGED <<attribute, MOCK, FAKE, invocations>>
    /\ retrievals' = 0
    /\ UNCHANGED restvars

\* f_stub::is_set()
StubIsSet ==
    /\ attribute.macro = "stub_function"
    /\ last' = Op("is_set", <<>>, Returned(stub_is_set(STUB)))
    /\ fresh' = [fresh EXCEPT !.outcome = Returned(stub_is_set(fresh.stub))]
    /\ UNCHANGED <<attribute, MOCK, STUB, FAKE, behaviour, invocations,
                   cleared_from>>
    /\ UNCHANGED <<retrievals, restvars>>

\* f_stub::get_return_value()
StubGetReturnValue ==
    /\ attribute.macro = "stub_function"
    /\ retrievals < MaxCalls
    /\ retrievals' = retrievals + 1
    /\ last' = Op("get_return_value", <<>>, get_return_value(STUB))
    /\ fresh' = [fresh EXCEPT !.outcome = get_return_value(fresh.stub)]
    /\ UNCHANGED <<attribute, MOCK, STUB, FAKE, behaviour, invocations,
                   cleared_from>>
    /\ UNCHANGED restvars

\* f(a, b, c), the function that stub_function generated
StubFunction(args) ==
    /\ attribute.macro = "stub_function"
    /\ retrievals < MaxCalls
    /\ retrievals' = retrievals + 1
    /\ LET r == create_stub_function(STUB, args)
           s == create_stub_function(fresh.stub, args)
       IN  /\ STUB' = r.self
           /\ last' = Op("function", args, r.outcome)
           /\ fresh' = [fresh EXCEPT !.stub = s.self, !.outcome = s.outcome]
    /\ UNCHANGED <<attribute, MOCK, FAKE, behaviour, invocations,
                   cleared_from>>
    /\ UNCHANGED restvars

\* ------------------------------------------------------------ fake actions
\* f_fake::setup(new_f)
FakeSetup(new_f) ==
    /\ attribute.macro = "fake_function"
    /\ FAKE' = fake_setup(FAKE, new_f)
    /\ last' = Op("setup", <<new_f>>, Returned(Unit))
    /\ behaviour' = Some(new_f)
    /\ fresh' = [fresh EXCEPT !.fake = fake_setup(@, new_f),
                              !.outcome = Returned(Unit)]
    /\ UNCHANGED <<attribute, MOCK, STUB, invocations, cleared_from>>
    /\ retrievals' = 0
    /\ UNCHANGED restvars

\* f_fake::clear()
FakeClear ==
    /\ attribute.macro = "fake_function"
    /\ FAKE' = fake_clear(FAKE)
    /\ last' = Op("clear", <<>>, Returned(Unit))
    /\ behaviour' = None
    /\ cleared_from' = Cleared
    /\ fresh' = FreshEngines
    /\ UNCHANGED <<attribute, MOCK, STUB, invocations>>
    /\ retrievals' = 0
    /\ UNCHANGED restvars

\* FunctionFake::is_set()
FakeIsSet ==
    /\ attribute.macro = "fake_function"
    /\ last' = Op("is_set", <<>>, Returned(fake_is_set(FAKE)))
    /\ fresh' = [fresh EXCEPT !.outcome = Returned(fake_is_set(fresh.fake))]
    /\ UNCHANGED <<attribute, MOCK, STUB, FAKE, behaviour, invocations,
                   cleared_from>>
    /\ UNCHANGED <<retrievals, restvars>>

\* f_fake::get_implementation()
FakeGetImplementation ==
    /\ attribute.macro = "fake_function"
    /\ retrievals < MaxCalls
    /\ retrievals' = retrievals + 1
    /\ last' = Op("get_implementation", <<>>, get_implementation(FAKE))
    /\ fresh' = [fresh EXCEPT !.outcome = get_implementation(fresh.fake)]
    /\ UNCHANGED <<attribute, MOCK, STUB, FAKE, behaviour, invocations,
                   cleared_from>>
    /\ UNCHANGED restvars

\* f_fake(a), the function that fake_function generated
FakeFunction(args) ==
    /\ attribute.macro = "fake_function"
    /\ retrievals < MaxCalls
    /\ retrievals' = retrievals + 1
    /\ LET r == create_fake_function(FakeFnInputs, FAKE, args)
           s == create_fake_function(FakeFnInputs, fresh.fake, args)
       IN  /\ FAKE' = r.self
           /\ last' = Op("function", args, r.outcome)
           /\ fresh' = [fresh EXCEPT !.fake = s.self, !.outcome = s.outcome]
    /\ UNCHANGED <<attribute, MOCK, STUB, behaviour, invocations,
                   cleared_from>>
    /\ UNCHANGED restvars

Next ==
    \/ \E new_f \in Behaviours : MockSetup(new_f)
    \/ MockClear
    \/ \E args \in ArgsOf(FnInputs) : MockCall(args)
    \/ \E n \in 0..(MaxCalls + 1) : MockAssertTimes(n)
    \/ \E args \in ArgsOf(Gen.filtered_fn_inputs) : MockAssertWith(args)
    \/ \E new_r \in ReturnVals : StubSetup(new_r)
    \/ StubClear
    \/ StubIsSet
    \/ StubGetReturnValue
    \/ \E args \in ArgsOf(FnInputs) : StubFunction(args)
    \/ \E new_f \in Behaviours : FakeSetup(new_f)
    \/ FakeClear
    \/ FakeIsSet
    \/ FakeGetImplementation
    \/ \E args \in ArgsOf(FakeFnInputs) : FakeFunction(args)

Spec == Init /\ [][Next]_vars

\* =================================================== functions and threads
\* A second specification: a test works at two places, either on two threads
\* with the generated module of one function, or on one thread with the
\* generated modules of two functions f and g.  Mocked and stubbed functions
\* have the parameters of FnInputs and no ignore list, a faked function has
\* the parameter of FakeFnInputs.
Context(fn, macro, thread) == [fn |-> fn, macro |-> macro, thread |-> thread]

Macros == {"mock_function", "stub_function", "fake_function"}

Scenarios ==
    {<<Context("f", m, 1), Context("f", m, 2)>> : m \in Macros}
        \cup {<<Context("f", "mock_function", 1), Context("g", m, 1)>> :
                 m \in Macros}

\* Behaviours and arguments used at the two places.
CtxBehaviours == {"add", "panics"}

CtxArgs == {args \in ArgsOf(FnInputs) : args[1] = args[3]}

\* All statics declared in one module of the crate, whatever the function.
mod_name_of_crate(ctx) == <<"crate">>

\* pub(crate) mod #mock_fn_name { ... }: the module generated for a function.
mod_name(ctx) ==
    CASE ctx.macro = "mock_function" -> mock_fn_name(ctx.fn)
      [] ctx.macro = "stub_function" -> stub_mod_name(ctx.fn)
      [] ctx.macro = "fake_function" -> fake_fn_name(ctx.fn)

\* The static declared in the generated module.
static_name(macro) ==
    CASE macro = "mock_function" -> "MOCK"
      [] macro = "stub_function" -> "STUB"
      [] macro = "fake_function" -> "FAKE"

\* A static that all threads share.
thread_local_shared(path, thread) == [path |-> path, thread |-> 0]

\* thread_local! { static X: ... }: every thread has its own instance of the
\* static, so an instance is named by the static and the thread.
thread_local(path, thread) == [path |-> path, thread |-> thread]

\* The instance that X.with(..) reaches in a context.
static_of(ctx) ==
    thread_local(<<mod_name(ctx), static_name(ctx.macro)>>, ctx.thread)

\* RefCell::new(Function*::new(stringify!(name))): the initial value of the
\* static of a context.
new_engine(ctx) ==
    CASE ctx.macro = "mock_function" -> new(mock_fn_name(ctx.fn))
      [] ctx.macro = "stub_function" -> stub_new(stub_mod_name(ctx.fn))
      [] ctx.macro = "fake_function" -> fake_new(fake_fn_name(ctx.fn))

\* One operation of the generated code of a context on an engine: the
\* engine as the operation leaves it, and how the operation ended.
Run(ctx, op, args, engine) ==
    LET IsM == ctx.macro = "mock_function"
        IsS == ctx.macro = "stub_function"
        gen == process_mock_function(ctx.fn, FnInputs, <<>>)
    IN  CASE op = "setup" ->
               [self |-> IF IsM THEN mock_implementation(engine, args[1])
                         ELSE IF IsS THEN stub_setup(engine, args[1])
                         ELSE fake_setup(engine, args[1]),
                outcome |-> Returned(Unit)]
          [] op = "clear" ->
               [self |-> IF IsM THEN clear_mock(engine)
                         ELSE IF IsS THEN stub_clear(engine)
                         ELSE fake_clear(engine),
                outcome |-> Returned(Unit)]
          [] op = "function" ->
               IF IsM THEN create_mock_function(gen, engine, args)
               ELSE IF IsS THEN create_stub_function(engine, args)
               ELSE create_fake_function(FakeFnInputs, engine, args)
          [] op = "assert_times" ->
               [self |-> engine, outcome |-> assert_times(engine, args[1])]
          [] op = "assert_with" ->
               [self |-> engine,
                outcome |-> proxy_assert_with(gen, engine, args)]
          [] op = "is_set" ->
               [self |-> engine, outcome |-> Returned(stub_is_set(engine))]

InitContexts ==
    /\ contexts \in Scenarios
    /\ statics =
          [k \in {static_of(contexts[i]) : i \in 1..2} |->
              new_engine(contexts[CHOOSE i \in 1..2 :
                                     static_of(contexts[i]) = k])]
    /\ own = [i \in 1..2 |->
                 [engine |-> new_engine(contexts[i]), invoked |-> FALSE]]
    /\ seen = [ctx |-> 0, op |-> "new", args |-> <<>>,
               outcome |-> Returned(Unit), alone |-> Returned(Unit)]
    /\ attribute = [macro |-> "none", ignore |-> <<>>]
    /\ InitTest
    /\ NoCell
    /\ NoMacro

\* The operation op run in context i: on the static the context reaches,
\* and on the context's own engine.
CtxStep(i, op, args) ==
    LET ctx == contexts[i]
        k   == static_of(ctx)
        r   == Run(ctx, op, args, statics[k])
        a   == Run(ctx, op, args, own[i].engine)
    IN  /\ statics' = [statics EXCEPT ![k] = r.self]
        /\ own' = [own EXCEPT ![i] =
                      [engine  |-> a.self,
                       invoked |-> @.invoked \/ op = "function"]]
        /\ seen' = [ctx |-> i, op |-> op, args |-> args,
                    outcome |-> r.outcome, alone |-> a.outcome]
        /\ UNCHANGED <<contexts, testvars, cellvars, macrovars>>

\* What a test can hand to the setup of a context, and the argument lists
\* of its function.
SetupValues(ctx) ==
    IF ctx.macro = "stub_function" THEN ReturnVals ELSE CtxBehaviours

FunctionArgs(ctx) ==
    IF ctx.macro = "fake_function" THEN ArgsOf(FakeFnInputs) ELSE CtxArgs

\* <module>::setup(value)
CtxSetup(i, value) ==
    /\ contexts[i].macro \in Macros
    /\ CtxStep(i, "setup", <<value>>)

\* <module>::clear()
CtxClear(i) ==
    /\ contexts[i].macro \in Macros
    /\ CtxStep(i, "clear", <<>>)

\* f_mock(a, b, c), the stubbed f(a, b, c) or f_fake(a)
CtxFunction(i, args) ==
    /\ contexts[i].macro = "mock_function"
          => /\ Len(statics[static_of(contexts[i])].calls) < MaxCalls
             /\ Len(own[i].engine.calls) < MaxCalls
    /\ CtxStep(i, "function", args)

\* f_mock::assert_times(expected_num_of_calls)
CtxAssertTimes(i, expected_num_of_calls) ==
    /\ contexts[i].macro = "mock_function"
    /\ CtxStep(i, "assert_times", <<expected_num_of_calls>>)

\* f_mock::assert_with(a, b, c)
CtxAssertWith(i, args) ==
    /\ contexts[i].macro = "mock_function"
    /\ CtxStep(i, "assert_with", args)

\* f_stub::is_set()
CtxIsSet(i) ==
    /\ contexts[i].macro = "stub_function"
    /\ CtxStep(i, "is_set", <<>>)

NextContexts ==
    \E i \in 1..2 :
        \/ \E value \in SetupValues(contexts[i]) : CtxSetup(i, value)
        \/ CtxClear(i)
        \/ \E args \in FunctionArgs(contexts[i]) : CtxFunction(i, args)
        \/ \E n \in 0..(MaxCalls + 1) : CtxAssertTimes(i, n)
        \/ \E args \in CtxArgs : CtxAssertWith(i, args)
        \/ CtxIsSet(i)

SpecContexts == InitContexts /\ [][NextContexts]_vars

\* ============================================ behaviours that enter again
\* A third specification: the static MOCK of one thread with its RefCell,
\* and behaviours that call a function of the generated module of the mock
\* they are the behaviour of.  The function f(a, b, c) has no ignore list.

\* How many entries of the module from inside a behaviour are followed.
MaxDepth == 2

\* Behaviours that enter the module again, and the function they call.
Reentering ==
    {"calls_function", "calls_setup", "calls_clear", "calls_assert_times",
     "calls_assert_with"}

ReentrantBehaviours == {"add"} \cup Reentering

Reentered(f) ==
    CASE f = "calls_function"     -> "function"
      [] f = "calls_setup"        -> "setup"
      [] f = "calls_clear"        -> "clear"
      [] f = "calls_assert_times" -> "assert_times"
      [] f = "calls_assert_with"  -> "assert_with"

\* The arguments a behaviour passes when it enters again, args being the
\* arguments of the call it is the behaviour of.
NestedArgs(f, args) ==
    CASE f = "calls_function"     -> args
      [] f = "calls_setup"        -> <<"add">>
      [] f = "calls_clear"        -> <<>>
      [] f = "calls_assert_times" -> <<1>>
      [] f = "calls_assert_with"  -> args

\* RefCell::new(value).  borrow is 0 when no borrow is alive, -1 while an
\* exclusive borrow is alive, and the number of shared borrows otherwise.
RefCell_new(value) == [value |-> value, borrow |-> 0]

\* borrow_mut that hands out an exclusive borrow whatever is alive.
borrow_mut_unchecked(cell) ==
    Returned([cell EXCEPT !.borrow = -1])

\* RefCell::borrow_mut: panics while any borrow is alive.
borrow_mut(cell) ==
    IF cell.borrow = 0
    THEN Returned([cell EXCEPT !.borrow = -1])
    ELSE Panicked("borrow_mut", <<"already borrowed">>)

\* RefCell::borrow: panics while an exclusive borrow is alive.
borrow(cell) ==
    IF cell.borrow >= 0
    THEN Returned([cell EXCEPT !.borrow = @ + 1])
    ELSE Panicked("borrow", <<"already mutably borrowed">>)

\* One function of the generated module run on the RefCell: MOCK.with(|mock|
\* mock.borrow_mut().<op>(..)) for f_mock, setup and clear, MOCK.with(|mock|
\* mock.borrow().<op>(..)) for the assertions.  The borrow is alive until
\* the operation has returned or unwound, the behaviour that call runs
\* included.  The result holds the cell as the operation leaves it, how the
\* operation ended, and, when the behaviour entered the module again, how
\* that ended and what the call log held at that point.
RECURSIVE module_run(_, _, _, _)
module_run(cell, op, args, depth) ==
    LET params == Eval(create_tuple_from_param_names(FnInputs, <<>>),
                       Bind(FnInputs, args))
        done(c, o, i) == [cell |-> c, outcome |-> o, inner |-> i]
    IN  IF op \in {"assert_times", "assert_with"}
        THEN LET b == borrow(cell)
             IN  IF b.status = "panic" THEN done(cell, b, None)
                 ELSE IF op = "assert_times"
                      THEN done(cell, assert_times(cell.value, args[1]), None)
                      ELSE done(cell, assert_with(cell.value, params), None)
        ELSE LET b == borrow_mut(cell)
             IN  IF b.status = "panic" THEN done(cell, b, None)
                 ELSE IF op = "setup"
                 THEN done([cell EXCEPT
                              !.value = mock_implementation(@, args[1])],
                           Returned(Unit), None)
                 ELSE IF op = "clear"
                 THEN done([cell EXCEPT !.value = clear_mock(@)],
                           Returned(Unit), None)
                 ELSE IF ~is_some(cell.value.implementation)
                         \/ unwrap(cell.value.implementation) \in Behaviours
                 THEN LET r == call(cell.value, params)
                      IN  done([cell EXCEPT !.value = r.self], r.outcome, None)
                 ELSE LET f == unwrap(cell.value.implementation)
                          pushed == [cell.value EXCEPT
                                       !.calls = Append(@, params)]
                          held == [value |-> pushed, borrow |-> b.value.borrow]
                      IN  IF depth = 0
                          THEN done([cell EXCEPT !.value = pushed],
                                    Panicked("behaviour", <<"stack overflow">>),
                                    None)
                          ELSE LET n == module_run(held, Reentered(f),
                                                   NestedArgs(f, args),
                                                   depth - 1)
                               IN  done([cell EXCEPT !.value = n.cell.value],
                                        IF n.outcome.status = "panic"
                                        THEN n.outcome
                                        ELSE Returned(SumSeq(params.elems)),
                                        Some([op      |-> Reentered(f),
                                              outcome |-> n.outcome,
                                              calls   |-> pushed.calls]))

\* A test that is not the test of Spec.
IdleTest ==
    /\ attribute = [macro |-> "none", ignore |-> <<>>]
    /\ InitTest

InitReentrant ==
    /\ CELL = RefCell_new(new(mock_fn_name(FnName)))
    /\ trace = [op |-> "new", args |-> <<>>,
                before |-> new(mock_fn_name(FnName)),
                outcome |-> Returned(Unit), inner |-> None]
    /\ IdleTest
    /\ NoContexts
    /\ NoMacro

\* The function op of the module called by the test.
CellStep(op, args) ==
    LET r == module_run(CELL, op, args, MaxDepth)
    IN  /\ CELL' = r.cell
        /\ trace' = [op |-> op, args |-> args, before |-> CELL.value,
                     outcome |-> r.outcome, inner |-> r.inner]
        /\ UNCHANGED <<testvars, ctxvars, macrovars>>

\* f_mock::setup(new_f)
CellSetup(new_f) == CellStep("setup", <<new_f>>)

\* f_mock::clear()
CellClear == CellStep("clear", <<>>)

\* f_mock(a, b, c)
CellFunction(args) ==
    /\ Len(CELL.value.calls) < MaxCalls
    /\ CellStep("function", args)

\* f_mock::assert_times(expected_num_of_calls)
CellAssertTimes(expected_num_of_calls) ==
    CellStep("assert_times", <<expected_num_of_calls>>)

\* f_mock::assert_with(a, b, c)
CellAssertWith(args) == CellStep("assert_with", args)

NextReentrant ==
    \/ \E new_f \in ReentrantBehaviours : CellSetup(new_f)
    \/ CellClear
    \/ \E args \in CtxArgs : CellFunction(args)
    \/ \E n \in 0..(MaxCalls + 1) : CellAssertTimes(n)
    \/ \E args \in CtxArgs : CellAssertWith(args)

SpecReentrant == InitReentrant /\ [][NextReentrant]_vars

\* ==================================================== the macros expanding
\* A fourth specification: an attribute macro is handed one item and leaves
\* its expansion.  The items are functions under #[fake_function] and use
\* statements under #[use_function_mock].

\* The longest parameter list of a faked function.
MaxParams == 3

\* The most nodes (path segments, groups, names, globs) of a use tree.
MaxNodes == 5

ParamPats == <<"a", "b", "c", "d", "e">>
ParamTypes == {"i32", "String"}
ModuleNames == {"a", "b"}
FunctionNames == {"f", "g"}

\* Parameter lists  a: T1, b: T2, ...  of length n.
RECURSIVE InputsOfLen(_)
InputsOfLen(n) ==
    IF n = 0 THEN { <<>> }
    ELSE { Append(inputs, [pat |-> ParamPats[n], ty |-> ty]) :
             inputs \in InputsOfLen(n - 1), ty \in ParamTypes }

\* syn::UseTree: Path (ident::tree), Name (ident), Group ({tree, ...}) and
\* Glob (*).
UsePath(ident, tree) == [node |-> "path", ident |-> ident, items |-> <<tree>>]
UseName(ident) == [node |-> "name", ident |-> ident, items |-> <<>>]
UseGroup(items) == [node |-> "group", ident |-> "", items |-> items]
UseGlob == [node |-> "glob", ident |-> "*", items |-> <<>>]

\* The use trees of exactly n nodes, and the non-empty lists of use trees
\* of n nodes together.
RECURSIVE TreesOf(_), ForestsOf(_)
TreesOf(n) ==
    IF n = 1 THEN { UseName(ident) : ident \in FunctionNames } \cup { UseGlob }
    ELSE { UsePath(ident, tree) :
             ident \in ModuleNames, tree \in TreesOf(n - 1) }
         \cup { UseGroup(items) : items \in ForestsOf(n - 1) }

ForestsOf(n) ==
    { <<tree>> : tree \in TreesOf(n) }
    \cup UNION { { <<tree>> \o rest :
                     tree \in TreesOf(k), rest \in ForestsOf(n - k) } :
                 k \in 1..(n - 1) }

\* The names a use tree brings into scope by name, one entry per Name leaf,
\* in order.  A glob names nothing: glob imports never clash.
RECURSIVE LeafNames(_), LeafNamesOfAll(_, _)
LeafNames(tree) ==
    IF tree.node = "name" THEN <<tree.ident>>
    ELSE IF tree.node = "glob" THEN <<>>
    ELSE LeafNamesOfAll(tree.items, 1)

LeafNamesOfAll(items, i) ==
    IF i > Len(items) THEN <<>>
    ELSE LeafNames(items[i]) \o LeafNamesOfAll(items, i + 1)

\* A use statement that compiles brings no name into scope twice.
NoNameTwice(tree) ==
    LET names == LeafNames(tree)
    IN  \A i, j \in DOMAIN names : names[i] = names[j] => i = j

\* The items the macros are handed.
FnItems ==
    { [kind |-> "fn", asyncness |-> asyncness, inputs |-> inputs,
       tree |-> <<>>] :
        asyncness \in BOOLEAN,
        inputs \in UNION { InputsOfLen(n) : n \in 0..MaxParams } }

UseItems ==
    { [kind |-> "use", asyncness |-> FALSE, inputs |-> <<>>, tree |-> tree] :
        tree \in { t \in UNION { TreesOf(n) : n \in 1..MaxNodes } :
                     NoNameTwice(t) } }

\* validate_function_fakeable: an async function is refused.
validate_function_fakeable(fake_function) ==
    IF fake_function.asyncness
    THEN Panicked("validate_function_fakeable",
                  <<"fake_function does not support async functions">>)
    ELSE Returned(Unit)

\* create_fake_function, as token trees: the generated function has the
\* inputs of the original and its body is
\*   #fake_fn_name::get_implementation()(#(#param_names),*)
create_fake_function_tokens(name, fn_inputs) ==
    [name      |-> name,
     inputs    |-> fn_inputs,
     call_args |-> get_param_names(fn_inputs)]

\* create_fake_module, as token trees: FAKE, setup and get_implementation
\* all carry the type  fn(#params_type) -> #return_type.
create_fake_module(name, params_type) ==
    [name |-> name,
     implementation_type |-> [inputs |-> <<params_type>>]]

\* process_fake_function: the expansion of #[fake_function] on a function.
process_fake_function(fake_function) ==
    LET valid == validate_function_fakeable(fake_function)
        fn_inputs == fake_function.inputs
        name == fake_fn_name(FnName)
        params_type == create_param_type(fn_inputs, <<>>)
    IN  IF valid.status = "panic" THEN valid
        ELSE Returned([original      |-> fake_function,
                       fake_function |->
                           create_fake_function_tokens(name, fn_inputs),
                       fake_module   |->
                           create_fake_module(name, params_type)])

\* process_use_tree(tree, base_path): the (fn_name, mock_fn_name) pairs of
\* the leaves, and base_path as the call leaves it.  A path segment is
\* pushed on base_path; every item of a group is processed with a clone of
\* base_path, which is dropped afterwards.
RECURSIVE process_use_tree(_, _), process_group_items(_, _, _)
process_use_tree(tree, base_path) ==
    CASE tree.node = "path" ->
            process_use_tree(tree.items[1], Append(base_path, tree.ident))
      [] tree.node = "name" ->
            [outcome   |-> Returned(<< [fn_name      |-> tree.ident,
                                        mock_fn_name |->
                                            mock_fn_name(tree.ident)] >>),
             base_path |-> base_path]
      [] tree.node = "group" ->
            [outcome   |-> process_group_items(tree.items, base_path, 1),
             base_path |-> base_path]
      [] OTHER ->
            [outcome   |-> Panicked("process_use_tree",
                               <<"use_function_mock only supports simple ",
                                 "path and grouped imports. ",
                                 "Glob imports (*) and renamed imports ",
                                 "(as) are not supported.">>),
             base_path |-> base_path]

\* The loop over group.items from item i on.
process_group_items(items, base_path, i) ==
    IF i > Len(items) THEN Returned(<<>>)
    ELSE LET item_path == base_path
             head == process_use_tree(items[i], item_path).outcome
             tail == process_group_items(items, base_path, i + 1)
         IN  IF head.status = "panic" THEN head
             ELSE IF tail.status = "panic" THEN tail
             ELSE Returned(head.value \o tail.value)

\* generate_single_import:
\*   #[cfg(not(test))] #input
\*   #[cfg(test)] use #module_path::#mock_fn_name as #fn_name;
generate_single_import(input, module_path, fn_name, mock_name) ==
    [not_test |-> input,
     test     |-> [form        |-> "single",
                   module_path |-> module_path,
                   imports     |-> << [name |-> mock_name,
                                       alias |-> fn_name] >>]]

\* generate_multiple_imports:
\*   #[cfg(not(test))] #input
\*   #[cfg(test)] use #module_path::{#(#mock_fn_name as #fn_name),*};
generate_multiple_imports(input, module_path, function_mappings) ==
    [not_test |-> input,
     test     |-> [form        |-> "multiple",
                   module_path |-> module_path,
                   imports     |->
                       [i \in DOMAIN function_mappings |->
                          [name  |-> function_mappings[i].mock_fn_name,
                           alias |-> function_mappings[i].fn_name]]]]

\* process_use_function_mock: the expansion of #[use_function_mock] on a
\* use statement.
process_use_function_mock(input) ==
    LET r == process_use_tree(input, <<>>)
        module_path == r.base_path
    IN  IF r.outcome.status = "panic" THEN r.outcome
        ELSE LET function_mappings == r.outcome.value
             IN  Returned(IF Len(function_mappings) = 1
                          THEN generate_single_import(
                                   input, module_path,
                                   function_mappings[1].fn_name,
                                   function_mappings[1].mock_fn_name)
                          ELSE generate_multiple_imports(
                                   input, module_path, function_mappings))

InitExpand ==
    /\ item \in FnItems \cup UseItems
    /\ expanded = <<>>
    /\ IdleTest
    /\ NoContexts
    /\ NoCell

\* #[fake_function] on the item.
ExpandFake ==
    /\ item.kind = "fn"
    /\ expanded = <<>>
    /\ expanded' = process_fake_function(item)
    /\ UNCHANGED <<item, testvars, ctxvars, cellvars>>

\* #[use_function_mock] on the item.
ExpandUse ==
    /\ item.kind = "use"
    /\ expanded = <<>>
    /\ expanded' = process_use_function_mock(item.tree)
    /\ UNCHANGED <<item, testvars, ctxvars, cellvars>>

NextExpand ==
    \/ ExpandFake
    \/ ExpandUse

SpecExpand == InitExpand /\ [][NextExpand]_vars

\* ================================================================= claims
\* The value f_mock hands to call for the arguments args.
ParamsOf(args) == Eval(Gen.params_to_tuple, Bind(FnInputs, args))

IsMock == attribute.macro = "mock_function"

NotInitialized == Panicked("call", <<mock_fn_name(FnName), " mock not initialized">>)

\* C1: a call on a mock that has no behaviour (never set up, or cleared and
\* not set up again) panics with "<name> mock not initialized" and leaves the
\* mock, its call log included, as it was before the call.
C1_UnconfiguredCallFailsAndLogsNothing ==
    [][(last'.op = "call" /\ behaviour = None)
          => /\ last'.outcome = NotInitialized
             /\ MOCK'.calls = MOCK.calls
             /\ MOCK' = MOCK]_vars

\* A call failed as not initialized on a mock that had been set up, called
\* and cleared before.
C1_Witness ==
    /\ last.op = "call"
    /\ last.outcome = NotInitialized
    /\ cleared_from # None
    /\ unwrap(cleared_from).had_calls

\* The number of calls since the construction or the last clear that returned.
RECURSIVE Returns(_)
Returns(invs) ==
    IF invs = <<>> THEN 0
    ELSE (IF Head(invs).returned THEN 1 ELSE 0) + Returns(Tail(invs))

\* C2 as stated: the length of the call log is the number of calls that
\* returned a result since the construction or the last clear.
C2_LogLengthIsReturnedCalls ==
    IsMock => Len(MOCK.calls) = Returns(invocations)

\* C2 amended: the length of the call log is the number of calls made on a
\* configured mock since the construction or the last clear, whether their
\* behaviour returned or panicked; it is the number of calls that returned
\* when no behaviour panicked.
C2_LogLengthIsConfiguredCalls ==
    IsMock =>
        /\ Len(MOCK.calls) = Len(invocations)
        /\ (\A i \in 1..Len(invocations) : invocations[i].returned)
              => Len(MOCK.calls) = Returns(invocations)

\* After a clear, two calls were made on a configured mock: one returned and
\* the behaviour of the other panicked.
C2_Witness ==
    /\ IsMock
    /\ cleared_from # None
    /\ Len(invocations) = 2
    /\ Returns(invocations) = 1

\* C3: a call on a configured mock returns what the behaviour handed to the
\* most recent setup yields for the parameters of the call.
C3_CallUsesLatestBehaviour ==
    (IsMock /\ last.op = "call" /\ behaviour # None)
        => last.outcome = Invoke(unwrap(behaviour), ParamsOf(last.args))

\* The second call since the last clear ran under "multiply", the behaviour
\* set up last, and returned the product 2 * 1 * 2 of its parameters (their
\* sum is 5).
C3_Witness ==
    /\ IsMock
    /\ last.op = "call"
    /\ behaviour = Some("multiply")
    /\ Len(invocations) = 2
    /\ invocations[1].returned
    /\ invocations[1].args = <<2, 1, 2>>
    /\ last.args = <<2, 1, 2>>
    /\ attribute.ignore = <<>>
    /\ MOCK.calls = <<ParamsOf(<<2, 1, 2>>), ParamsOf(<<2, 1, 2>>)>>
    /\ last.outcome = Returned(4)

\* C4: a call on a configured mock whose behaviour panics has appended its
\* parameters to the call log all the same.
C4_PanickingBehaviourIsLogged ==
    [][(last'.op = "call" /\ behaviour # None
          /\ last'.outcome.status = "panic")
          => MOCK'.calls = Append(MOCK.calls, ParamsOf(last'.args))]_vars

\* The behaviour of the call made last panicked and the call is in the log.
C4_Witness ==
    /\ IsMock
    /\ last.op = "call"
    /\ last.outcome.status = "panic"
    /\ last.outcome.site = "behaviour"
    /\ Len(MOCK.calls) = 2
    /\ MOCK.calls[2] = ParamsOf(last.args)

\* C5: from the clear on and until the next setup the mock is the mock that
\* new makes: no behaviour, no calls, and a call fails as not initialized.
C5_ClearResets ==
    (IsMock /\ behaviour = None)
        => /\ MOCK.implementation = None
           /\ MOCK.calls = <<>>
           /\ MOCK = new(mock_fn_name(FnName))
           /\ last.op = "call" => last.outcome = NotInitialized

\* A mock that had a behaviour and calls was cleared, and the call made
\* after the clear failed.
C5_Witness ==
    /\ IsMock
    /\ behaviour = None
    /\ cleared_from # None
    /\ unwrap(cleared_from).setup # None
    /\ unwrap(cleared_from).had_calls
    /\ last.op = "call"

\* C6: once an engine was cleared, it is at every moment the engine that new
\* makes after the operations performed since the clear, and every operation
\* ends on it as it ends on that engine: nothing set up or recorded before
\* the clear shows in call, assert_times, assert_with, is_set,
\* get_return_value or get_implementation.
C6_NoLeakAcrossClear ==
    cleared_from # None
        => /\ MOCK = fresh.mock
           /\ STUB = fresh.stub
           /\ FAKE = fresh.fake
           /\ last.outcome = fresh.outcome

\* setup("add"), a call, clear(), setup("multiply"), and then a call.
C6_Witness ==
    /\ IsMock
    /\ cleared_from = Some([setup |-> Some("add"), had_calls |-> TRUE])
    /\ behaviour = Some("multiply")
    /\ last.op = "call"
    /\ attribute.ignore = <<>>
    /\ last.outcome = Returned(4)
    /\ MOCK.calls = <<ParamsOf(<<2, 1, 2>>)>>

\* C7: assert_times(e) returns exactly when e is the length of the call log,
\* which is the number of calls made on the configured mock since the
\* construction or the last clear; for every other e it panics.
C7_AssertTimesIffLength ==
    (IsMock /\ last.op = "assert_times")
        => /\ last.outcome.status = "ok" <=> last.args[1] = Len(MOCK.calls)
           /\ last.outcome.status = "ok" <=> last.args[1] = Len(invocations)
           /\ last.outcome.status \in {"ok", "panic"}

\* After two calls, assert_times(1) panicked.
C7_Witness ==
    /\ IsMock
    /\ last.op = "assert_times"
    /\ Len(invocations) = 2
    /\ Returns(invocations) = 2
    /\ last.args = <<1>>
    /\ last.outcome.status = "panic"

\* The value assert_with compares the call log with, for the arguments args
\* of the generated assert_with.
AssertedParams(args) ==
    Eval(Gen.params_to_tuple, Bind(Gen.filtered_fn_inputs, args))

\* C8: assert_with(p) returns exactly when some entry of the call log equals
\* p, wherever it is and however often it occurs; otherwise, on an empty log
\* too, it panics.
C8_AssertWithIffLogged ==
    (IsMock /\ last.op = "assert_with")
        => /\ last.outcome.status = "ok"
                <=> \E i \in 1..Len(MOCK.calls) :
                        MOCK.calls[i] = AssertedParams(last.args)
           /\ last.outcome.status \in {"ok", "panic"}

\* assert_with returned for the parameters of the first of two calls, the
\* second call having other parameters.
C8_Witness ==
    /\ IsMock
    /\ last.op = "assert_with"
    /\ last.outcome.status = "ok"
    /\ Len(MOCK.calls) = 2
    /\ MOCK.calls[1] = AssertedParams(last.args)
    /\ MOCK.calls[2] # AssertedParams(last.args)

\* The parameters of f that the ignore list does not name.
Ignored(pat) == \E k \in 1..Len(attribute.ignore) : attribute.ignore[k] = pat

\* args agrees with the values vals given for the parameters that are not
\* ignored, in declaration order.  `at` is the position in args, `k` the
\* position in vals.
RECURSIVE Agrees(_, _, _, _)
Agrees(args, vals, at, k) ==
    IF at > Len(FnInputs) THEN k = Len(vals) + 1
    ELSE IF Ignored(FnInputs[at].pat) THEN Agrees(args, vals, at + 1, k)
         ELSE /\ k <= Len(vals)
              /\ args[at] = vals[k]
              /\ Agrees(args, vals, at + 1, k + 1)

\* Two argument lists that differ, and only in ignored parameters.
DifferOnlyInIgnored(x, y) ==
    /\ x # y
    /\ \A at \in 1..Len(FnInputs) :
          x[at] # y[at] => Ignored(FnInputs[at].pat)

\* C9: with an ignore list, assert_with returns for the values that a
\* recorded call has in the parameters that are not ignored, so it returns
\* for each of two calls that differ only in ignored parameters; each of
\* these calls has its own entry in the call log, the two entries are equal,
\* and assert_times returns for the number of calls made.
C9_IgnoredDifferencesMatchAndCount ==
    (IsMock /\ attribute.ignore # <<>>)
        => /\ (last.op = "assert_with"
                 /\ \E i \in 1..Len(invocations) :
                        Agrees(invocations[i].args, last.args, 1, 1))
                 => last.outcome.status = "ok"
           /\ (last.op = "assert_times" /\ last.args[1] = Len(invocations))
                 => last.outcome.status = "ok"
           /\ \A i, j \in 1..Len(invocations) :
                 DifferOnlyInIgnored(invocations[i].args, invocations[j].args)
                    => /\ i <= Len(MOCK.calls)
                       /\ j <= Len(MOCK.calls)
                       /\ MOCK.calls[i] = MOCK.calls[j]

\* f(2, 1, 1) and f(2, 1, 2) with c ignored, and then assert_with(2, 1)
\* returned.
C9_Witness ==
    /\ IsMock
    /\ attribute.ignore = <<"c">>
    /\ Len(invocations) = 2
    /\ invocations[1].args = <<2, 1, 1>>
    /\ invocations[2].args = <<2, 1, 2>>
    /\ last.op = "assert_with"
    /\ last.args = <<2, 1>>
    /\ last.outcome.status = "ok"

\* C10: with an ignore list, assert_with panics when no recorded call has
\* the given values in all the parameters that are not ignored, whatever the
\* recorded calls have in the ignored parameters.
C10_IgnoredNeverMakeAMatch ==
    (IsMock /\ attribute.ignore # <<>> /\ last.op = "assert_with"
       /\ \A i \in 1..Len(invocations) :
             ~Agrees(invocations[i].args, last.args, 1, 1))
        => /\ last.outcome.status = "panic"
           /\ last.outcome.site = "assert_with"

\* f(1, 1, 2) with c ignored, and then assert_with(2, 1) panicked: the
\* ignored parameter has the value asked for in a, and a has another.
C10_Witness ==
    /\ IsMock
    /\ attribute.ignore = <<"c">>
    /\ Len(invocations) = 1
    /\ invocations[1].args = <<1, 1, 2>>
    /\ last.op = "assert_with"
    /\ last.args = <<2, 1>>
    /\ last.outcome.status = "panic"

IsStub == attribute.macro = "stub_function"

IsFake == attribute.macro = "fake_function"

\* The values that args has in the parameters that are not ignored, in
\* declaration order, from position `at` on.
RECURSIVE Kept(_, _)
Kept(args, at) ==
    IF at > Len(FnInputs) THEN <<>>
    ELSE IF Ignored(FnInputs[at].pat) THEN Kept(args, at + 1)
         ELSE <<args[at]>> \o Kept(args, at + 1)

\* C11 as stated: the value handed to call holds all the parameters of the
\* call, so the entry that a call on a configured mock appends to the log
\* holds the values of the ignored parameters too, and the behaviour is run
\* on all of them.
C11_CallGetsAllParameters ==
    (IsMock /\ last.op = "call" /\ behaviour # None)
        => /\ MOCK.calls # <<>>
           /\ MOCK.calls[Len(MOCK.calls)].elems = last.args
           /\ last.outcome = Invoke(unwrap(behaviour),
                                    [shape |-> "tuple", elems |-> last.args])

\* C11 amended: the value handed to call holds the parameters that are not
\* ignored, in declaration order: the values of the ignored parameters are
\* dropped before call, so they are neither in the entry appended to the
\* log nor among the values the behaviour is run on.  Without an ignore
\* list the value holds all the parameters.
C11_CallGetsNonIgnoredParameters ==
    (IsMock /\ last.op = "call" /\ behaviour # None)
        => /\ MOCK.calls # <<>>
           /\ MOCK.calls[Len(MOCK.calls)].elems = Kept(last.args, 1)
           /\ last.outcome = Invoke(unwrap(behaviour),
                                    [shape |-> "tuple",
                                     elems |-> Kept(last.args, 1)])
           /\ attribute.ignore = <<>>
                 => MOCK.calls[Len(MOCK.calls)].elems = last.args

\* f(2, 1, 2) with c ignored under "add": the log holds (2, 1) and the call
\* returned 2 + 1.
C11_Witness ==
    /\ IsMock
    /\ attribute.ignore = <<"c">>
    /\ behaviour = Some("add")
    /\ last.op = "call"
    /\ last.args = <<2, 1, 2>>
    /\ MOCK.calls = <<[shape |-> "tuple", elems |-> <<2, 1>>]>>
    /\ last.outcome = Returned(3)

\* C12: get_return_value on a stub and get_implementation on a fake that
\* has no setup since its construction or its last clear panic with
\* "<name> stub not initialized" and "<name> fake not initialized"; no
\* value is returned and the engine is the engine that new makes.
C12_UnconfiguredGettersFail ==
    /\ (IsStub /\ last.op = "get_return_value" /\ behaviour = None)
          => /\ last.outcome =
                   Panicked("get_return_value",
                            <<stub_mod_name(FnName), " stub not initialized">>)
             /\ STUB = stub_new(stub_mod_name(FnName))
    /\ (IsFake /\ last.op = "get_implementation" /\ behaviour = None)
          => /\ last.outcome =
                   Panicked("get_implementation",
                            <<fake_fn_name(FnName), " fake not initialized">>)
             /\ FAKE = fake_new(fake_fn_name(FnName))

\* A stub that had a value was cleared, and get_return_value panicked.
C12_Witness ==
    /\ IsStub
    /\ cleared_from # None
    /\ unwrap(cleared_from).setup # None
    /\ behaviour = None
    /\ last.op = "get_return_value"
    /\ last.outcome.status = "panic"

\* C13: get_return_value on a stub returns the value handed to the most
\* recent setup, the first time and every time after it, and the stub
\* still holds that value.
C13_StubReturnsLatestValueEveryTime ==
    (IsStub /\ last.op = "get_return_value" /\ behaviour # None)
        => /\ last.outcome = Returned(unwrap(behaviour))
           /\ STUB.return_value = behaviour

\* The second get_return_value in a row after setup(42) returned 42.
C13_Witness ==
    /\ IsStub
    /\ behaviour = Some(42)
    /\ retrievals = 2
    /\ last.op = "get_return_value"
    /\ last.outcome = Returned(42)
    /\ STUB.return_value = Some(42)

\* C14 as stated: the function that stub_function generated returns the
\* value of the stub after a setup, and panics when it is run after a clear
\* that no setup has followed.
C14_StubbedFunctionFailsAfterClear ==
    (IsStub /\ last.op = "function")
        => /\ behaviour # None => last.outcome = Returned(unwrap(behaviour))
           /\ (behaviour = None /\ cleared_from # None)
                 => last.outcome.status = "panic"

\* C15: the function that stub_function generated returns the value of the
\* stub exactly when the stub is set; when it is not (never set up, or
\* cleared) it returns what the body of the function returns; it never
\* panics as not initialized.
C15_StubbedFunctionIsInjectionPoint ==
    (IsStub /\ last.op = "function")
        => /\ last.outcome =
                 IF behaviour # None
                 THEN Returned(unwrap(behaviour))
                 ELSE Returned(0 - (last.args[1] + last.args[2]
                                      + last.args[3]))
           /\ last.outcome.status = "ok"

\* setup, clear, and then f(1, 1, 2) returned what its body returns.
C15_Witness ==
    /\ IsStub
    /\ cleared_from # None
    /\ unwrap(cleared_from).setup # None
    /\ behaviour = None
    /\ last.op = "function"
    /\ last.args = <<1, 1, 2>>
    /\ last.outcome = Returned(0 - 4)

\* C16: get_implementation on a configured fake returns the function handed
\* to the most recent setup, not a result of it, every time it is asked,
\* and the fake still holds that function.
C16_FakeReturnsLatestFunction ==
    (IsFake /\ last.op = "get_implementation" /\ behaviour # None)
        => /\ last.outcome = Returned(unwrap(behaviour))
           /\ last.outcome.value \in Behaviours
           /\ FAKE.implementation = behaviour

\* The second get_implementation in a row returned "multiply".
C16_Witness ==
    /\ IsFake
    /\ behaviour = Some("multiply")
    /\ retrievals = 2
    /\ last.op = "get_implementation"
    /\ last.outcome = Returned("multiply")

\* C17: fetching the behaviour of a fake and running the faked function
\* leave the fake (its name and its behaviour) as it was, and the faked
\* function ends as the behaviour ends on the parameter of the call.
C17_FakeKeepsNoHistory ==
    [][(IsFake /\ last'.op \in {"get_implementation", "function"})
          => /\ FAKE' = FAKE
             /\ FAKE'.name = fake_fn_name(FnName)
             /\ FAKE'.implementation = behaviour
             /\ (last'.op = "function" /\ behaviour # None)
                   => last'.outcome =
                        Invoke(unwrap(behaviour),
                               [shape |-> "bare", elems |-> last'.args])]_vars

\* The second run in a row of f_fake(2) under "add" returned 2, and the
\* fake holds "add".
C17_Witness ==
    /\ IsFake
    /\ behaviour = Some("add")
    /\ retrievals = 2
    /\ last.op = "function"
    /\ last.args = <<2>>
    /\ last.outcome = Returned(2)
    /\ FAKE = fake_setup(fake_new(fake_fn_name(FnName)), "add")

\* C20 as stated: the message of a failed assert_times names the expected
\* number after "to be called" and the length of the call log after
\* "received".
C20_MessageNamesExpectedThenActual ==
    (IsMock /\ last.op = "assert_times" /\ last.outcome.status = "panic")
        => last.outcome.message =
              <<"Expected ", mock_fn_name(FnName), " mock to be called ",
                last.args[1], " times, received ", Len(invocations)>>

\* The test works on two threads with the module of one function.
IsThreads == contexts # <<>> /\ contexts[1].thread # contexts[2].thread

\* The test works on one thread with the modules of two functions.
IsFunctions == contexts # <<>> /\ contexts[1].fn # contexts[2].fn

\* C18: under every interleaving of the operations of two threads on the
\* generated module of one function, the engine a thread reaches is the
\* engine that the operations of that thread alone have made, and every
\* operation ends as it ends on that engine: nothing another thread set up,
\* called or cleared shows in call, assert_times, assert_with or is_set.
C18_ThreadsAreIsolated ==
    IsThreads
        => /\ \A i \in 1..2 :
                 statics[static_of(contexts[i])] = own[i].engine
           /\ seen.outcome = seen.alone

\* Thread 1 has set up its mock and called it; the call thread 2 then made
\* panicked as not initialized, and the log of thread 1 has its one call.
C18_Witness ==
    /\ IsThreads
    /\ contexts[1].macro = "mock_function"
    /\ own[1].engine.implementation = Some("add")
    /\ Len(own[1].engine.calls) = 1
    /\ seen.ctx = 2
    /\ seen.op = "function"
    /\ seen.outcome =
          Panicked("call", <<mock_fn_name("f"), " mock not initialized">>)
    /\ statics[static_of(contexts[1])].calls = own[1].engine.calls

\* C19: the engine generated for a function is at every moment the engine
\* that the operations on that function alone have made, whatever was done
\* on the engine of the other function, and every operation ends as it ends
\* on that engine; so assert_times(0) returns for a mock whose function was
\* never called.
C19_FunctionsAreIndependent ==
    IsFunctions
        => /\ \A i \in 1..2 :
                 statics[static_of(contexts[i])] = own[i].engine
           /\ seen.outcome = seen.alone
           /\ (seen.op = "assert_times" /\ seen.args = <<0>>
                 /\ ~own[seen.ctx].invoked)
                 => seen.outcome = Returned(Unit)

\* The fake of g was set up and g_fake was called, the mock of f was set up
\* and never called, and assert_times(0) returned on the mock of f.
C19_Witness ==
    /\ IsFunctions
    /\ contexts[2].macro = "fake_function"
    /\ own[2].invoked
    /\ own[2].engine.implementation # None
    /\ own[1].engine.implementation # None
    /\ ~own[1].invoked
    /\ seen.ctx = 1
    /\ seen.op = "assert_times"
    /\ seen.args = <<0>>
    /\ seen.outcome = Returned(Unit)

\* The text that {:?} writes for the values vals of the parameters that are
\* not ignored.
Rendered(vals) ==
    IF Len(vals) = 0 THEN <<"()">>
    ELSE IF Len(vals) = 1 THEN <<vals[1]>>
    ELSE IF Len(vals) = 2 THEN <<"(", vals[1], ", ", vals[2], ")">>
    ELSE <<"(", vals[1], ", ", vals[2], ", ", vals[3], ")">>

\* C21: the message of a failed assert_with(p) is "Expected <name> mock to
\* be called with <p>": it names the mock and shows the value asked for,
\* which is the value of no entry of the call log.
C21_AssertWithMessageShowsAskedValue ==
    (IsMock /\ last.op = "assert_with" /\ last.outcome.status = "panic")
        => /\ last.outcome.message =
                 <<"Expected ", mock_fn_name(FnName),
                   " mock to be called with ">> \o Rendered(last.args)
           /\ \A i \in 1..Len(MOCK.calls) :
                 MOCK.calls[i].elems # last.args

\* f(1, 1, 1) was called without an ignore list, and assert_with(2, 1, 2)
\* panicked with "Expected f_mock mock to be called with (2, 1, 2)".
C21_Witness ==
    /\ IsMock
    /\ attribute.ignore = <<>>
    /\ Len(invocations) = 1
    /\ invocations[1].args = <<1, 1, 1>>
    /\ last.op = "assert_with"
    /\ last.outcome =
          Panicked("assert_with",
                   <<"Expected ", <<"f", "_mock">>, " mock to be called with ",
                     "(", 2, ", ", 1, ", ", 2, ")">>)

\* C22: the call log holds the parameters of the calls made on the
\* configured mock since the construction or the last clear, one entry per
\* call, in the order of the calls: entry i is the value handed to call by
\* the i-th of these calls, so a later call has added its entry at the end
\* and has left the entries before it as they were.
C22_LogIsTheCallsInOrder ==
    IsMock
        => /\ Len(MOCK.calls) = Len(invocations)
           /\ \A i \in 1..Len(invocations) :
                 /\ i <= Len(MOCK.calls)
                 /\ MOCK.calls[i].elems = Kept(invocations[i].args, 1)

\* f(1, 1, 1) and then f(2, 1, 2): the log holds (1, 1, 1) and (2, 1, 2) in
\* this order.
C22_Witness ==
    /\ IsMock
    /\ attribute.ignore = <<>>
    /\ Len(invocations) = 2
    /\ invocations[1].args = <<1, 1, 1>>
    /\ invocations[2].args = <<2, 1, 2>>
    /\ MOCK.calls = <<[shape |-> "tuple", elems |-> <<1, 1, 1>>],
                      [shape |-> "tuple", elems |-> <<2, 1, 2>>]>>

\* Nothing was set up and nothing was cleared since the construction.
AsConstructed == behaviour = None /\ cleared_from = None

\* C23: until its first setup the engine that new made carries the name it
\* was given and has no behaviour or value; the mock has no calls either,
\* and assert_times(0) returns on it.
C23_NewIsNamedAndUnconfigured ==
    AsConstructed
        => /\ MOCK = [name |-> <<FnName, "_mock">>, implementation |-> <<>>,
                      calls |-> <<>>]
           /\ STUB = [name |-> <<FnName, "_stub">>, return_value |-> <<>>]
           /\ FAKE = [name |-> <<FnName, "_fake">>, implementation |-> <<>>]
           /\ (IsMock /\ last.op = "assert_times" /\ last.args = <<0>>)
                 => last.outcome = Returned(Unit)
           /\ (last.op = "is_set") => last.outcome = Returned(FALSE)

\* assert_times(0) returned on a mock that was never set up.
C23_Witness ==
    /\ IsMock
    /\ AsConstructed
    /\ last.op = "assert_times"
    /\ last.args = <<0>>
    /\ last.outcome = Returned(Unit)
    /\ MOCK.name = <<"f", "_mock">>

\* The shape of a value of n parameters.
ShapeOf(n) == IF n = 0 THEN "unit" ELSE IF n = 1 THEN "bare" ELSE "tuple"

\* C24: for the parameters that are not ignored, none gives the unit value,
\* one gives the bare parameter, two or more give a tuple in declaration
\* order; the parameter type and the parameter expression have the same
\* shape and the same length, and every entry of the call log and every
\* value assert_with compares the log with has that shape.
C24_OneShapeForCallAndAssertion ==
    IsMock
        => LET names == Kept(<<"a", "b", "c">>, 1)
               shape == ShapeOf(Len(names))
           IN  /\ Gen.params_to_tuple = [shape |-> shape, elems |-> names]
               /\ Gen.params_type =
                     [shape |-> shape,
                      elems |-> [i \in 1..Len(names) |-> "i32"]]
               /\ \A i \in 1..Len(MOCK.calls) :
                     /\ MOCK.calls[i].shape = shape
                     /\ Len(MOCK.calls[i].elems) = Len(names)
               /\ last.op = "assert_with"
                     => /\ AssertedParams(last.args).shape = shape
                        /\ AssertedParams(last.args).elems = last.args

\* With b and c ignored, f(2, 1, 2) is logged as the bare value 2, and
\* assert_with(2) returned.
C24_Witness ==
    /\ IsMock
    /\ attribute.ignore = <<"c", "b">>
    /\ MOCK.calls = <<[shape |-> "bare", elems |-> <<2>>]>>
    /\ invocations[1].args = <<2, 1, 2>>
    /\ last.op = "assert_with"
    /\ last.args = <<2>>
    /\ last.outcome = Returned(Unit)

\* C25: is_set on a stub and on a fake returns, without panicking, true
\* exactly when a setup was made since the construction or the last clear,
\* and the engine holds after it what it held before: the value or function
\* of that setup, or nothing.
C25_IsSetIffSetUp ==
    (last.op = "is_set")
        => /\ last.outcome = Returned(behaviour # None)
           /\ IsStub => /\ STUB.name = <<FnName, "_stub">>
                        /\ STUB.return_value = behaviour
           /\ IsFake => /\ FAKE.name = <<FnName, "_fake">>
                        /\ FAKE.implementation = behaviour

\* A stub that had a value was cleared, and is_set returned false.
C25_Witness ==
    /\ IsStub
    /\ cleared_from # None
    /\ unwrap(cleared_from).setup # None
    /\ last.op = "is_set"
    /\ last.outcome = Returned(FALSE)

\* C26: right after a setup the mock has the new behaviour and its name,
\* and its call log still holds, in order, the calls made since the
\* construction or the last clear, all of them made before this setup.
C26_SetupKeepsTheLog ==
    (IsMock /\ last.op = "setup")
        => /\ MOCK.implementation = Some(last.args[1])
           /\ MOCK.name = <<FnName, "_mock">>
           /\ Len(MOCK.calls) = Len(invocations)
           /\ \A i \in 1..Len(invocations) :
                 /\ i <= Len(MOCK.calls)
                 /\ MOCK.calls[i].elems = Kept(invocations[i].args, 1)

\* Two calls were made and returned, then setup("multiply") replaced the
\* behaviour: the log has the two calls.
C26_Witness ==
    /\ IsMock
    /\ last.op = "setup"
    /\ last.args = <<"multiply">>
    /\ Len(invocations) = 2
    /\ Returns(invocations) = 2
    /\ Len(MOCK.calls) = 2
    /\ MOCK.implementation = Some("multiply")

\* C27: after any run of assert_times and assert_with, returned or
\* panicked, the mock has its name, the behaviour of the latest setup and
\* the log of the calls made, and the assertion run last ended as it ends
\* when it is the only assertion made: assert_times by the number of calls
\* made, assert_with by the values the calls had in the parameters that are
\* not ignored.
C27_AssertionsOnlyObserve ==
    (IsMock /\ last.op \in {"assert_times", "assert_with"})
        => /\ MOCK.name = <<FnName, "_mock">>
           /\ MOCK.implementation = behaviour
           /\ Len(MOCK.calls) = Len(invocations)
           /\ \A i \in 1..Len(invocations) :
                 /\ i <= Len(MOCK.calls)
                 /\ MOCK.calls[i].elems = Kept(invocations[i].args, 1)
           /\ last.op = "assert_times"
                 => (last.outcome.status = "ok"
                        <=> last.args[1] = Len(invocations))
           /\ last.op = "assert_with"
                 => (last.outcome.status = "ok"
                        <=> \E i \in 1..Len(invocations) :
                               Kept(invocations[i].args, 1) = last.args)

\* After two calls on a configured mock assert_times(2) returned, and the
\* log has the two calls.
C27_Witness ==
    /\ IsMock
    /\ Len(invocations) = 2
    /\ Len(MOCK.calls) = 2
    /\ last.op = "assert_times"
    /\ last.args = <<2>>
    /\ last.outcome = Returned(Unit)
    /\ behaviour # None

\* C28: when a call runs a behaviour that enters the module of its own mock
\* again on the same thread, the entry panics at the borrow (borrow_mut for
\* f_mock, setup and clear, borrow for assert_times and assert_with) and
\* the call ends with that panic; the call log holds the parameters of the
\* outer call when the behaviour enters, and the entry has done nothing:
\* the mock after the call is the mock before it with that one entry added.
C28_ReentryFailsAtTheBorrow ==
    (trace # <<>> /\ trace.op = "function"
       /\ is_some(trace.before.implementation)
       /\ unwrap(trace.before.implementation) \in Reentering)
        => LET f == unwrap(trace.before.implementation)
               logged == Append(trace.before.calls,
                                [shape |-> "tuple", elems |-> trace.args])
           IN  /\ trace.inner # None
               /\ unwrap(trace.inner).outcome.status = "panic"
               /\ unwrap(trace.inner).outcome.site =
                     (IF f \in {"calls_assert_times", "calls_assert_with"}
                      THEN "borrow" ELSE "borrow_mut")
               /\ trace.outcome = unwrap(trace.inner).outcome
               /\ unwrap(trace.inner).calls = logged
               /\ CELL.value = [trace.before EXCEPT !.calls = logged]
               /\ CELL.borrow = 0

\* After one call, a call whose behaviour calls f_mock::clear() panicked at
\* borrow_mut; the log has both calls and the behaviour is still there.
C28_Witness ==
    /\ trace # <<>>
    /\ trace.op = "function"
    /\ trace.before.implementation = Some("calls_clear")
    /\ Len(trace.before.calls) = 1
    /\ trace.outcome = Panicked("borrow_mut", <<"already borrowed">>)
    /\ Len(CELL.value.calls) = 2
    /\ CELL.value.implementation = Some("calls_clear")

\* The macro has expanded the function under #[fake_function].
FakeExpanded ==
    /\ item # <<>>
    /\ item.kind = "fn"
    /\ expanded # <<>>
    /\ expanded.status = "ok"

\* The type a declared parameter has where the generated function names it.
TypeOfArg(inputs, name) ==
    LET i == CHOOSE i \in DOMAIN inputs : inputs[i].pat = name
    IN  [shape |-> "bare", elems |-> <<inputs[i].ty>>]

\* C29 as stated: for every number of parameters, the generated fake
\* function passes the stored behaviour as many arguments as the function
\* type of the fake module takes, each of the type that type takes there.
C29_FakeCallMatchesStoredType ==
    FakeExpanded
        => LET stored == expanded.value.fake_module.implementation_type.inputs
               passed == expanded.value.fake_function.call_args
               inputs == expanded.value.fake_function.inputs
           IN  /\ Len(passed) = Len(stored)
               /\ \A i \in DOMAIN passed :
                     TypeOfArg(inputs, passed[i]) = stored[i]

\* The macro has expanded the statement under #[use_function_mock].
UseExpanded ==
    /\ item # <<>>
    /\ item.kind = "use"
    /\ expanded # <<>>
    /\ expanded.status = "ok"

\* The leaves of a use tree, each with the module path that leads to it.
RECURSIVE Leaves(_, _)
Leaves(tree, path) ==
    CASE tree.node = "path" ->
            Leaves(tree.items[1], Append(path, tree.ident))
      [] tree.node = "group" ->
            UNION { Leaves(tree.items[i], path) : i \in DOMAIN tree.items }
      [] OTHER -> { [path |-> path, ident |-> tree.ident] }

\* What the test-mode use statement imports: a name under a module path,
\* and the alias it gets.  With an empty module path the statement starts
\* with "::".
ImportsOf(stmt) ==
    { [rooted |-> stmt.module_path = <<>>,
       path   |-> stmt.module_path,
       name   |-> stmt.imports[i].name,
       alias  |-> stmt.imports[i].alias] : i \in DOMAIN stmt.imports }

\* C30 as stated: for each leaf f of the use tree, the test-mode statement
\* imports f_mock as f under exactly the module path that leads to f in the
\* original statement, segments inside a group included, and nothing else.
C30_MockImportedFromSameModule ==
    UseExpanded
        => ImportsOf(expanded.value.test) =
              { [rooted |-> FALSE,
                 path   |-> leaf.path,
                 name   |-> mock_fn_name(leaf.ident),
                 alias  |-> leaf.ident] : leaf \in Leaves(item.tree, <<>>) }

=============================================================================
